---- MODULE Spec2Model ----
(***************************************************************************)
(* checkulps: the ULP-verification engine of core-math-integration.        *)
(*                                                                         *)
(* The module models src/src/checkulps/checkulps.cc: the sampling passes   *)
(* of check_random_f and check_full_f (one OpenMP parallel region per      *)
(* rounding mode), the rounding scope round_setup_t, the result_t checks,  *)
(* the histogram reduction ulpacc_reduction and the wyhash64 generator.    *)
(*                                                                         *)
(* binary32 values are bit patterns [s |-> sign bit, mag |-> low 31 bits]. *)
(* Finite magnitudes are measured in units of 2^-149 (the smallest         *)
(* positive subnormal), so that every finite value of the model is an      *)
(* integer.                                                                *)
(***************************************************************************)
EXTENDS Integers, Sequences, FiniteSets, TLC

\* ------------------------------------------------------------------------
\* Bounds of the model
\* ------------------------------------------------------------------------

\* number of OpenMP threads of a team (omp_get_max_threads)
MaxThreads == 2

\* largest "count" of a random sample, and largest width of a full range
MaxCount == 2

\* width in bits of the generator state (64 in the program)
RngBits == 4

\* longest list of sample ULP values reduced in SpecMerge
MaxList == 3

\* ------------------------------------------------------------------------
\* Program constants
\* ------------------------------------------------------------------------

\* k_max_ulp_str = "9.0"
k_max_ulp == 9

\* EXIT_FAILURE
EXIT_FAILURE == 1

\* wyhash64 constants, low 16 bits (reduced to RngBits below)
WyInc == 64533
WyMul1 == 46861
WyMul2 == 54729

\* binary32 layout: 0x00400000, 0x7fc00000, 0x7f800000, 0x00800000
QuietBit == 4194304
QNaNMag == 2143289344
InfMag == 2139095040
MinNormalMag == 8388608

\* rounding modes (fenv.h) and the oracle's encodings (mpfr.h)
k_round_modes == <<"FE_TONEAREST", "FE_UPWARD", "FE_DOWNWARD", "FE_TOWARDZERO">>

Threads == 0 .. (MaxThreads - 1)

\* ------------------------------------------------------------------------
\* binary32 classification
\* ------------------------------------------------------------------------

F32(s, mag) == [s |-> s, mag |-> mag]

\* mutant: the quiet bit is not flipped before the comparison
issignaling_no_flip(x) == x.mag > QNaNMag

\* issignaling<float>: n.u ^= 0x00400000; (n.u & 0x7fffffff) > 0x7fc00000
issignaling(x) ==
    LET flipped == IF (x.mag \div QuietBit) % 2 = 1
                   THEN x.mag - QuietBit
                   ELSE x.mag + QuietBit
    IN  flipped > QNaNMag

isnan(x) == x.mag > InfMag

isinf(x) == x.mag = InfMag

signbit(x) == x.s = 1

fpclassify(x) ==
    IF x.mag = 0 THEN "FP_ZERO"
    ELSE IF x.mag < MinNormalMag THEN "FP_SUBNORMAL"
    ELSE IF x.mag < InfMag THEN "FP_NORMAL"
    ELSE IF x.mag = InfMag THEN "FP_INFINITE"
    ELSE "FP_NAN"

RECURSIVE Pow2(_)
Pow2(n) == IF n = 0 THEN 1 ELSE 2 * Pow2(n - 1)

\* A finite value is Sig (x) * 2^UExp (x) in units of 2^-149: Sig is the
\* significand as an integer (with the hidden bit of a normal value) and
\* UExp the exponent of its last place.
Sig(x) ==
    LET bexp == x.mag \div MinNormalMag
        frac == x.mag % MinNormalMag
    IN  IF bexp = 0 THEN frac ELSE MinNormalMag + frac

UExp(x) ==
    LET bexp == x.mag \div MinNormalMag
    IN  IF bexp = 0 THEN 0 ELSE bexp - 1

\* UExp of the largest finite value, std::numeric_limits<float>::max ()
MaxUExp == UExp(F32(0, InfMag - 1))

\* sign of a * 2^d - b, for a > 0, b >= 0, d >= 0
CmpShift(a, d, b) ==
    IF d >= 31 THEN 1
    ELSE LET q == b \div Pow2(d)
             r == b % Pow2(d)
         IN  IF a > q THEN 1
             ELSE IF a < q THEN 0 - 1
             ELSE IF r > 0 THEN 0 - 1 ELSE 0

\* sign of m1 * 2^u1 - m2 * 2^u2
CmpScaled(m1, u1, m2, u2) ==
    IF m1 = 0 THEN (IF m2 = 0 THEN 0 ELSE 0 - 1)
    ELSE IF m2 = 0 THEN 1
    ELSE IF u1 >= u2 THEN CmpShift(m1, u1 - u2, m2)
    ELSE 0 - CmpShift(m2, u2 - u1, m1)

\* ------------------------------------------------------------------------
\* ULP metric
\* ------------------------------------------------------------------------

\* ulp (F value): the result is 2^k units of 2^-149, given as k.  The
\* default branch of the switch is std::unreachable (): it has no defined
\* result.
ulp(value) ==
    CASE fpclassify(value) \in {"FP_ZERO", "FP_SUBNORMAL"} -> 0
      [] fpclassify(value) = "FP_NORMAL" ->
            (value.mag \div MinNormalMag) - 1
      [] OTHER -> "unreachable"

Abs(n) == IF n < 0 THEN 0 - n ELSE n

\* quotients of at least Large are all given as Large
Large == Pow2(22)

\* how the magnitude of a result of sign neg is rounded in mode fenv
MagRound(fenv, neg) ==
    CASE fenv = "FE_TONEAREST" -> "nearest"
      [] fenv = "FE_TOWARDZERO" -> "down"
      [] fenv = "FE_UPWARD" -> IF neg THEN "down" ELSE "up"
      [] OTHER -> IF neg THEN "up" ELSE "down"

\* given - expected overflows to an infinity in mode fenv: the operands have
\* different signs and the sum of their magnitudes rounds beyond the largest
\* finite value
SubOverflows(given, expected, fenv) ==
    LET gbig == CmpScaled(Sig(given), UExp(given),
                          Sig(expected), UExp(expected)) >= 0
        big   == IF gbig THEN given ELSE expected
        small == IF gbig THEN expected ELSE given
        half  == CmpScaled(Sig(small), UExp(small),
                           4 * MinNormalMag - 1 - 2 * Sig(big), MaxUExp - 1)
        over  == CmpScaled(Sig(small), UExp(small),
                           2 * MinNormalMag - 1 - Sig(big), MaxUExp)
    IN  /\ given.s # expected.s
        /\ UExp(big) = MaxUExp
        /\ CASE MagRound(fenv, given.s = 1) = "nearest" -> half >= 0
             [] MagRound(fenv, given.s = 1) = "up" -> over > 0
             [] OTHER -> FALSE

\* fabs (given - expected) / ulp (expected) is at least 2^128: expected is
\* so much smaller than given that the difference is given or, rounded away
\* from it, the value next to given
DivOverflows(given, expected, fenv) ==
    LET dir  == MagRound(fenv, given.s = 1)
        up   == Sig(expected) # 0 /\ given.s # expected.s /\ dir = "up"
        down == Sig(expected) # 0 /\ given.s = expected.s /\ dir = "down"
        ua   == IF up /\ Sig(given) = 2 * MinNormalMag - 1
                THEN UExp(given) + 1
                ELSE IF down /\ Sig(given) = MinNormalMag
                THEN UExp(given) - 1
                ELSE UExp(given)
    IN  /\ UExp(given) - UExp(expected) >= 103
        /\ ua - UExp(expected) >= 105

\* the operands are close enough for the difference to be computed exactly
ShiftMax == 5

\* ulpdiff (given, expected) = fabs (given - expected) / ulp (expected),
\* evaluated in binary32 under the rounding mode fenv of the caller.  The
\* quotient is [fin |-> TRUE, v |-> n], n its integer part, or not finite:
\* when an operand is NaN or infinite (whatever the divisor is), when the
\* subtraction overflows, and when the division overflows in a mode that
\* rounds the quotient up to infinity.
ulpdiff(given, expected, fenv) ==
    IF isnan(given) \/ isnan(expected) \/ isinf(given) \/ isinf(expected)
    THEN [fin |-> FALSE, v |-> 0]
    ELSE IF SubOverflows(given, expected, fenv)
    THEN [fin |-> FALSE, v |-> 0]
    ELSE IF /\ DivOverflows(given, expected, fenv)
            /\ fenv \in {"FE_TONEAREST", "FE_UPWARD"}
    THEN [fin |-> FALSE, v |-> 0]
    ELSE IF Abs(UExp(given) - UExp(expected)) > ShiftMax
    THEN [fin |-> TRUE, v |-> Large]
    ELSE LET um == IF UExp(given) < UExp(expected)
                   THEN UExp(given) ELSE UExp(expected)
             g  == Sig(given) * Pow2(UExp(given) - um)
             e  == Sig(expected) * Pow2(UExp(expected) - um)
             n  == IF given.s = expected.s THEN Abs(g - e) ELSE g + e
             q  == n \div Pow2(ulp(expected) - um)
         IN  [fin |-> TRUE, v |-> IF q > Large THEN Large ELSE q]

\* round_mode_from_rnd: the entry of k_round_modes, std::abort () otherwise
round_mode_from_rnd(rnd) ==
    IF \E i \in 1 .. Len(k_round_modes) : k_round_modes[i] = rnd
    THEN rnd
    ELSE "abort"

\* a distance that is NaN or infinite is recorded as max
result_ulp_nonfinite_is_max(computed, expected, max, fenv) ==
    LET d == ulpdiff(computed, expected, fenv)
    IN  IF ~d.fin \/ d.v >= max THEN max ELSE d.v

\* the ulp field computed by the constructor of result_t, which runs under
\* the rounding mode fenv of the calling thread
result_ulp(computed, expected, max, fenv) ==
    LET d  == ulpdiff(computed, expected, fenv)
        u0 == IF ~d.fin THEN 0 ELSE d.v
    IN  IF u0 >= max THEN max ELSE u0

\* result_f_t (r, i, c, e, m), constructed under the rounding mode fenv
result_f_t(r, i, c, e, m, fenv) ==
    [rnd |-> round_mode_from_rnd(r), input |-> i, computed |-> c,
     expected |-> e, ulp |-> result_ulp(c, e, m, fenv), max |-> m]

\* result_t::check
check(ret) == ret.ulp < ret.max

\* result_t::check_full
check_full(ret) ==
    IF issignaling(ret.computed) \/ issignaling(ret.expected) THEN FALSE
    ELSE IF isnan(ret.computed) /\ isnan(ret.expected) THEN TRUE
    ELSE IF isinf(ret.computed) /\ isinf(ret.expected)
         THEN signbit(ret.computed) = signbit(ret.expected)
    ELSE IF isinf(ret.computed) \/ isnan(ret.computed)
            \/ isinf(ret.expected) \/ isnan(ret.expected) THEN FALSE
    ELSE check(ret)

\* ------------------------------------------------------------------------
\* ULP histogram: ulpacc_t = std::map<F, uint64_t>
\* ------------------------------------------------------------------------

EmptyAcc == [k \in {} |-> 0]

\* acc[key] += n  (operator[] inserts a zero for a new key)
ulpacc_add(acc, key, n) ==
    IF key \in DOMAIN acc
    THEN [acc EXCEPT ![key] = @ + n]
    ELSE [k \in (DOMAIN acc) \cup {key} |-> IF k = key THEN n ELSE acc[k]]

Min(S) == CHOOSE x \in S : \A y \in S : x <= y

\* for (const auto &ulp : in) inout[ulp.first] += ulp.second;
\* the map is walked in ascending key order
RECURSIVE ReduceKeys(_, _, _)
ReduceKeys(inout, in, keys) ==
    IF keys = {} THEN inout
    ELSE LET k == Min(keys)
         IN  ReduceKeys(ulpacc_add(inout, k, in[k]), in, keys \ {k})

\* mutant: inout.insert (in), which keeps the buckets inout already has
ulpacc_reduction_insert(inout, in) ==
    [k \in (DOMAIN inout) \cup (DOMAIN in) |->
        IF k \in DOMAIN inout THEN inout[k] ELSE in[k]]

\* mutant: inout[ulp.first] = ulp.second
ulpacc_reduction_overwrite(inout, in) ==
    [k \in (DOMAIN inout) \cup (DOMAIN in) |->
        IF k \in DOMAIN in THEN in[k] ELSE inout[k]]

ulpacc_reduction(inout, in) == ReduceKeys(inout, in, DOMAIN in)

RECURSIVE SumKeys(_, _)
SumKeys(acc, keys) ==
    IF keys = {} THEN 0
    ELSE LET k == Min(keys) IN acc[k] + SumKeys(acc, keys \ {k})

\* ulptotal of print_acc: std::accumulate over the buckets
ulptotal(acc) == SumKeys(acc, DOMAIN acc)

\* ------------------------------------------------------------------------
\* wyhash64, on RngBits bits
\* ------------------------------------------------------------------------

RngMod == Pow2(RngBits)

RECURSIVE BitXor(_, _)
BitXor(a, b) ==
    IF a = 0 THEN b
    ELSE IF b = 0 THEN a
    ELSE ((a + b) % 2) + 2 * BitXor(a \div 2, b \div 2)

\* state += 0x60bee2bee120fc15ull
wyhash_advance(state) == (state + WyInc) % RngMod

\* m1 = (tmp >> w) ^ tmp of state * c1, m2 the same of m1 * c2
wyhash_mix(state) ==
    LET tmp1 == state * (WyMul1 % RngMod)
        m1   == BitXor(tmp1 \div RngMod, tmp1 % RngMod)
        tmp2 == m1 * (WyMul2 % RngMod)
    IN  BitXor(tmp2 \div RngMod, tmp2 % RngMod)

\* ------------------------------------------------------------------------
\* Rounding
\* ------------------------------------------------------------------------

\* num / den rounded to an integer in rounding mode fe (num >= 0, den > 0)
RoundDiv(num, den, fe) ==
    LET q == num \div den
        r == num % den
    IN  IF r = 0 THEN q
        ELSE CASE fe = "FE_UPWARD" -> q + 1
               [] fe \in {"FE_DOWNWARD", "FE_TOWARDZERO"} -> q
               [] OTHER -> IF 2 * r > den THEN q + 1
                           ELSE IF 2 * r < den THEN q
                           ELSE IF q % 2 = 0 THEN q ELSE q + 1

\* dist (gen) of std::uniform_real_distribution<F> (start, end): the raw
\* draw scaled into [start, end) in floating-point arithmetic, which rounds
\* in the calling thread's current rounding mode
dist(arg, raw, fe) ==
    F32(0, arg.start + RoundDiv(raw * (arg.end - arg.start), RngMod, fe))

\* func_ref_t::operator(): the fenv mode to the oracle's encoding
mpfr_rnd(rnd) ==
    CASE rnd = "FE_TONEAREST" -> "MPFR_RNDN"
      [] rnd = "FE_UPWARD" -> "MPFR_RNDU"
      [] rnd = "FE_DOWNWARD" -> "MPFR_RNDD"
      [] rnd = "FE_TOWARDZERO" -> "MPFR_RNDZ"
      [] OTHER -> "unreachable"

\* ------------------------------------------------------------------------
\* The function under test and its oracle (external collaborators)
\* ------------------------------------------------------------------------

PlusInf == F32(0, InfMag)

\* The reference function: the exact result lies strictly between two
\* adjacent values, so only MPFR_RNDU rounds it up; with func.pole the
\* function overflows to +Inf on every fourth bit pattern.
OracleValue(f, input, mrnd) ==
    IF f.pole /\ input.mag % 4 = 2 THEN PlusInf
    ELSE F32(0, input.mag + (IF mrnd = "MPFR_RNDU" THEN 1 ELSE 0))

\* the oracle is asked for the value rounded to nearest whatever rnd is
ref_func_to_nearest(f, input, rnd) == OracleValue(f, input, "MPFR_RNDN")

\* func_ref_t::operator() (input, rnd)
ref_func(f, input, rnd) == OracleValue(f, input, mpfr_rnd(rnd))

\* The candidate, evaluated under the calling thread's rounding mode fe:
\* "exact" is correctly rounded, "off1" is one ulp off on odd inputs, "bad"
\* is k_max_ulp off on odd inputs and finite where the function overflows.
CandValue(f, input, fe) ==
    LET base == OracleValue(f, input, mpfr_rnd(fe))
    IN  CASE f.cand = "exact" -> base
          [] f.cand = "off1" ->
                IF input.mag % 2 = 1 THEN F32(0, base.mag + 1) ELSE base
          [] OTHER ->
                IF isinf(base) THEN F32(0, input.mag)
                ELSE IF input.mag % 2 = 1 THEN F32(0, base.mag + k_max_ulp)
                ELSE base

FuncPairs ==
    { [cand |-> "exact", pole |-> FALSE],
      [cand |-> "off1", pole |-> FALSE],
      [cand |-> "exact", pole |-> TRUE],
      [cand |-> "bad", pole |-> TRUE] }

\* ------------------------------------------------------------------------
\* Configurations of a run
\* ------------------------------------------------------------------------

FailModes == {"none", "first", "all"}

RoundSets ==
    { <<"FE_TONEAREST", "FE_UPWARD">>,
      <<"FE_DOWNWARD", "FE_TOWARDZERO">>,
      <<"FE_UPWARD">> }

\* Description::Sample1Arg<F>{ {start, end}, count }
Sample1Arg(start, end, count) ==
    [kind |-> "Sample1Arg", arg |-> [start |-> start, end |-> end],
     count |-> count]

\* Description::FullRange{ name, start, end }
FullRange(start, end) ==
    [kind |-> "FullRange", name |-> "range", start |-> start, end |-> end]

\* Description::Sample2Arg<F>{ {start_x, end_x}, {start_y, end_y}, count }
Sample2Arg(start_x, end_x, start_y, end_y, count) ==
    [kind |-> "Sample2Arg", arg_x |-> [start |-> start_x, end |-> end_x],
     arg_y |-> [start |-> start_y, end |-> end_y], count |-> count]

\* the function type of the run: a binary32 function of one argument,
\* which main gives to run_f<float>
FuncType == "f32_f"

\* entries of data["samples"]: {"x": [start, end], "count": n} and
\* {"x": [start, end], "y": [start, end], "count": n}
EntryX(start, end, count) == [x |-> <<start, end>>, count |-> count]

EntryXY(start_x, end_x, start_y, end_y, count) ==
    [x |-> <<start_x, end_x>>, y |-> <<start_y, end_y>>, count |-> count]

\* handle1Arg: the samples it can return.  Its switch has no case for a
\* function of another shape, where it is std::unreachable ().
handle1Arg(functype, start, end, count) ==
    IF functype \in {"f32_f", "f64_f"}
    THEN { Sample1Arg(start, end, count) }
    ELSE { Sample1Arg(start, end, count), Sample2Arg(0, 0, 0, 0, 0) }

\* handle2Arg: the samples it can return.  For a function of one argument
\* the switch is std::unreachable (): the build returns a two-argument
\* alternative of the variant or leaves the returned object as it found it
\* (alternative 0, Sample1Arg<float>, with indeterminate members).
handle2Arg(functype, start_x, end_x, start_y, end_y, count) ==
    IF functype \in {"f32_f_f", "f64_f_f", "f32_f_lli", "f64_f_lli"}
    THEN { Sample2Arg(start_x, end_x, start_y, end_y, count) }
    ELSE { Sample2Arg(start_x, end_x, start_y, end_y, count),
           Sample1Arg(5, 6, 1) }

\* what Description::parse pushes for one entry of data["samples"]
parse_entry(functype, r) ==
    IF "y" \in DOMAIN r
    THEN handle2Arg(functype, r.x[1], r.x[2], r.y[1], r.y[2], r.count)
    ELSE handle1Arg(functype, r.x[1], r.x[2], r.count)

\* Description::parse of data["samples"]: the lists Samples can hold after
\* it, one sample per entry, in order
parse(functype, entries) ==
    LET all == UNION { parse_entry(functype, entries[i]) :
                          i \in DOMAIN entries }
    IN  { l \in [DOMAIN entries -> all] :
            \A i \in DOMAIN entries : l[i] \in parse_entry(functype, entries[i]) }

\* data["samples"] of the descriptions of the model
Descriptions ==
    { <<EntryX(4, 8, MaxCount)>>,
      <<EntryX(4, 7, 1), EntryXY(4, 7, 4, 7, 1)>>,
      <<EntryX(4, 7, 0)>> }

\* Description::parse of data["full"]: handleFullRange returns two ranges
\* for a keyword, here with few bit patterns each
FullLists == { <<FullRange(2, 3), FullRange(1, 3)>> }

\* Samples after Description::parse: a description holds data["full"] or
\* data["samples"], not both
SampleLists ==
    FullLists \cup UNION { parse(FuncType, d) : d \in Descriptions }

\* seeds read from std::random_device, one per thread slot
SeedSets == { [t \in Threads |-> t + 1], [t \in Threads |-> (5 * t + 3) % RngMod] }

\* ------------------------------------------------------------------------
\* State
\* ------------------------------------------------------------------------

VARIABLES
    failmode,       \* fail_mode_t of the run
    round_modes,    \* round_set of the run
    Samples,        \* Description::Samples
    func,           \* the candidate/oracle pair of run_f
    rng_states,     \* static std::vector<rng_t::state_type> rng_states
    main_pc,        \* position of the main thread in run_f / check_*_f
    sample_i,       \* index of the sample of run_f's loop
    rnd_i,          \* index of the mode of check_*_f's loop
    exit_status,    \* -1 while the process runs, else its exit status
    exit_by,        \* what ended the process
    out,            \* report blocks printed by print_acc (standard output)
    err,            \* lines written to std::cerr
    pc,             \* position of each thread of the team
    fe,             \* floating-point rounding mode of each thread
    saved_rnd,      \* round_setup_t::saved_rnd of each thread
    gens,           \* std::vector<rng_t> gens, the state of each generator
    ret,            \* the result a thread is about to print
    ulpacc_priv,    \* each thread's private copy of the reduction variable
    ulpaccrange,    \* the reduction variable ulpaccrange
    next_i,         \* iterations of the omp for already handed out
    drawn,          \* history: inputs each thread slot evaluated this pass
    seen,           \* history: ULP values of the samples built this pass
    nfail,          \* history: failing checks of this pass
    log,            \* history: the completed passes
    m_list,         \* SpecMerge: the sample ULP values
    m_local,        \* SpecMerge: the thread-local histograms
    m_left,         \* SpecMerge: the thread-local histograms not yet reduced
    m_acc,          \* SpecMerge: the reduction variable
    c_args,         \* SpecCheck, SpecUlp, SpecRound: the arguments
    c_verdict       \* SpecCheck, SpecUlp, SpecRound: what was returned

cfgvars == <<failmode, round_modes, Samples, func, rng_states>>
mainvars == <<main_pc, sample_i, rnd_i>>
iovars == <<exit_status, exit_by, out, err>>
thrvars == <<pc, fe, saved_rnd, gens, ret, ulpacc_priv>>
passvars == <<ulpaccrange, next_i>>
histvars == <<drawn, seen, nfail, log>>
mvars == <<m_list, m_local, m_left, m_acc>>
cvars == <<c_args, c_verdict>>
runvars == <<cfgvars, mainvars, iovars, thrvars, passvars, histvars>>
vars == <<runvars, mvars, cvars>>

NoRet == [rnd |-> "none"]

Running == exit_status = -1

CurSample == Samples[sample_i]
CurRnd == round_modes[rnd_i]

\* iterations of the omp for of the current pass:
\*   for (i = 0; i < sample.count; i++)          in check_random_f
\*   for (i = sample.start; i < sample.end; i++) in check_full_f
Iterations(sample) ==
    IF sample.kind = "FullRange" THEN sample.end - sample.start
    ELSE sample.count

\* the state main reaches after init_random_state (), with the option
\* values, the description and the seeds it has read
Config ==
    /\ failmode \in FailModes
    /\ round_modes \in RoundSets
    /\ Samples \in SampleLists
    /\ func \in FuncPairs
    /\ rng_states \in SeedSets

RunStart ==
    /\ main_pc = "sample"
    /\ sample_i = 1
    /\ rnd_i = 1
    /\ exit_status = -1
    /\ exit_by = "none"
    /\ out = <<>>
    /\ err = <<>>
    /\ pc = [t \in Threads |-> "idle"]
    /\ fe = [t \in Threads |-> "FE_TONEAREST"]
    /\ saved_rnd = [t \in Threads |-> "FE_TONEAREST"]
    /\ gens = [t \in Threads |-> 0]
    /\ ret = [t \in Threads |-> NoRet]
    /\ ulpacc_priv = [t \in Threads |-> EmptyAcc]
    /\ ulpaccrange = EmptyAcc
    /\ next_i = 0
    /\ drawn = [t \in Threads |-> <<>>]
    /\ seen = EmptyAcc
    /\ nfail = 0
    /\ log = <<>>

MergeIdle ==
    m_list = <<>> /\ m_local = <<>> /\ m_left = {} /\ m_acc = EmptyAcc

CheckIdle == c_args = <<>> /\ c_verdict = "none"

Init == Config /\ RunStart /\ MergeIdle /\ CheckIdle

\* ------------------------------------------------------------------------
\* Helpers of the actions
\* ------------------------------------------------------------------------

\* floatrange::Limits<float>::from (n): the bit pattern n as a value
\* (patterns of the model are below 2^31, their sign bit is clear)
from(n) == F32(0, n)

\* result_f_t::print: mode name, ulp, input, computed, expected
print(r) ==
    [kind |-> "sample", rnd |-> r.rnd, ulp |-> r.ulp, input |-> r.input,
     computed |-> r.computed, expected |-> r.expected]

\* print_acc: the report block of one pass
\* the report is not written now
println_ts_deferred(stream, str) == stream

\* println_ts: std::println writes the line to standard output, whose
\* buffer std::exit flushes
println_ts(stream, str) == Append(stream, str)

print_acc(rndname, sample, ulpacc) ==
    [rnd |-> rndname, sample |-> sample, total |-> ulptotal(ulpacc),
     acc |-> ulpacc]

\* mutant: the mode is set by the main thread alone
round_setup_enter_main_only(t, rnd) ==
    IF t = 0 THEN [fe EXCEPT ![t] = rnd] ELSE fe

\* round_setup_t (rnd): fesetround (rnd) in the calling thread
round_setup_enter(t, rnd) == [fe EXCEPT ![t] = rnd]

\* the scope is left with the mode of the pass still set
round_setup_leave_keep(t) == fe

\* ~round_setup_t (): fesetround (saved_rnd) in the calling thread
round_setup_leave(t) == [fe EXCEPT ![t] = saved_rnd[t]]

\* the generator of slot i goes on from the state the last pass left
reseed_keep_state(i) == gens[i]

\* the seed the generator of slot i starts a pass from:
\* gens[i] = rng_t (rng_states[i])
reseed(i) == rng_states[i]

\* every thread draws from the generator of slot 0
gen_slot_zero(t) == 0

\* the generator slot a thread draws from: gens[get_thread_num ()]
gen_slot(t) == t

\* the message is written and the caller goes on
error_no_exit(msg) ==
    /\ err' = Append(err, [kind |-> "error", msg |-> msg])
    /\ UNCHANGED <<exit_status, exit_by, out>>

\* error (...): the message on std::cerr and std::exit (EXIT_FAILURE)
error(msg) ==
    /\ err' = Append(err, [kind |-> "error", msg |-> msg])
    /\ exit_status' = EXIT_FAILURE
    /\ exit_by' = "error"
    /\ UNCHANGED out

\* history only: one more occurrence of value v in the bag b
BagAdd(b, v) ==
    [k \in (DOMAIN b) \cup {v} |->
        (IF k \in DOMAIN b THEN b[k] ELSE 0) + (IF k = v THEN 1 ELSE 0)]

\* mutant: a failed sample is not counted
accumulate_skip_failed(acc, r) ==
    IF r.ulp >= r.max THEN acc ELSE ulpacc_add(acc, r.ulp, 1)

\* ulpaccrange[ret->ulp] += 1 on the thread's private copy
accumulate(acc, r) == ulpacc_add(acc, r.ulp, 1)

\* mutant: the first policy prints and goes on, without std::exit
switch_failmode_no_exit(fm) ==
    IF fm \in {"first", "all"} THEN "crit_all" ELSE "for"

\* mutant: every policy but all ends the process, none included
switch_failmode_default_first(fm) ==
    IF fm = "all" THEN "crit_all" ELSE "crit_first"

\* switch (failmode) of a failed check: where the thread goes next
switch_failmode(fm) ==
    CASE fm = "first" -> "crit_first"
      [] fm = "all" -> "crit_all"
      [] OTHER -> "for"

\* what the loop body does with the result r of thread t, ok its check:
\*   if (!ok) switch (failmode) { first: print, exit; all: print; }
\*   ulpaccrange[ret->ulp] += 1;
Handle(t, r, ok) ==
    /\ next_i' = next_i + 1
    /\ drawn' = [drawn EXCEPT ![t] = Append(@, r.input.mag)]
    /\ seen' = BagAdd(seen, r.ulp)
    /\ nfail' = IF ok THEN nfail ELSE nfail + 1
    /\ IF ok \/ switch_failmode(failmode) = "for"
       THEN /\ ulpacc_priv' = [ulpacc_priv EXCEPT ![t] = accumulate(@, r)]
            /\ UNCHANGED <<pc, ret>>
       ELSE /\ pc' = [pc EXCEPT ![t] = switch_failmode(failmode)]
            /\ ret' = [ret EXCEPT ![t] = r]
            /\ UNCHANGED ulpacc_priv
    /\ UNCHANGED <<cfgvars, mainvars, iovars, fe, saved_rnd, ulpaccrange,
                   log, mvars, cvars>>

\* ------------------------------------------------------------------------
\* Actions of the main thread
\* ------------------------------------------------------------------------

\* run_f: the next sample of desc.Samples goes to check_random_f or
\* check_full_f, which starts with its first rounding mode
Dispatch ==
    /\ Running /\ main_pc = "sample"
    /\ sample_i <= Len(Samples)
    /\ CurSample.kind \in {"Sample1Arg", "FullRange"}
    /\ main_pc' = "rnd"
    /\ rnd_i' = 1
    /\ gens' = IF CurSample.kind = "Sample1Arg"
               THEN [t \in Threads |-> 0]
               ELSE gens
    /\ UNCHANGED <<cfgvars, sample_i, iovars, pc, fe, saved_rnd, ret,
                   ulpacc_priv, passvars, histvars, mvars, cvars>>

\* run_f: the sample is no alternative run_f handles:
\* error ("invalid sample type")
DispatchInvalid ==
    /\ Running /\ main_pc = "sample"
    /\ sample_i <= Len(Samples)
    /\ CurSample.kind \notin {"Sample1Arg", "FullRange"}
    /\ error("invalid sample type")
    /\ UNCHANGED <<cfgvars, mainvars, thrvars, passvars, histvars, mvars,
                   cvars>>

\* run_f returns after the last sample and main returns 0
Finish ==
    /\ Running /\ main_pc = "sample"
    /\ sample_i > Len(Samples)
    /\ main_pc' = "done"
    /\ exit_status' = 0
    /\ exit_by' = "main"
    /\ UNCHANGED <<cfgvars, sample_i, rnd_i, out, err, thrvars, passvars,
                   histvars, mvars, cvars>>

\* check_*_f, top of the loop over round_modes: reseed the generators
\* (check_random_f only), clear ulpaccrange and open the parallel region
\* the private copy of a worker goes on from what the last pass left in it
omp_priv_kept(t) == ulpacc_priv[t]

\* initializer(omp_priv = ulpacc_t<float_type> ()): the private copy of the
\* reduction variable a worker starts the loop with
omp_priv(t) == EmptyAcc

StartPass ==
    /\ Running /\ main_pc = "rnd"
    /\ rnd_i <= Len(round_modes)
    /\ gens' = IF CurSample.kind = "Sample1Arg"
               THEN [i \in Threads |-> reseed(i)]
               ELSE gens
    /\ ulpaccrange' = EmptyAcc
    /\ next_i' = 0
    /\ pc' = [t \in Threads |-> "enter"]
    /\ ulpacc_priv' = [t \in Threads |-> omp_priv(t)]
    /\ main_pc' = "parallel"
    /\ drawn' = [t \in Threads |-> <<>>]
    /\ seen' = EmptyAcc
    /\ nfail' = 0
    /\ UNCHANGED <<cfgvars, sample_i, rnd_i, iovars, fe, saved_rnd, ret, log,
                   mvars, cvars>>

\* mutant: the loop over round_modes is left after its first pass
next_pass_first_mode_only(si, ri) ==
    [main_pc |-> "sample", sample_i |-> si + 1, rnd_i |-> 1]

\* where the main thread goes after pass ri of sample si: the next mode of
\* check_*_f's loop or, after the last mode, the next sample of run_f's loop
next_pass(si, ri) ==
    IF ri < Len(round_modes)
    THEN [main_pc |-> "rnd", sample_i |-> si, rnd_i |-> ri + 1]
    ELSE [main_pc |-> "sample", sample_i |-> si + 1, rnd_i |-> 1]

\* after the parallel region: print_acc, then the next mode or, after the
\* last mode, back to run_f for the next sample
Report ==
    /\ Running /\ main_pc = "parallel"
    /\ \A t \in Threads : pc[t] = "joined"
    /\ out' = println_ts(out, print_acc(CurRnd, CurSample, ulpaccrange))
    /\ log' = Append(log, [sample |-> sample_i, rnd |-> CurRnd,
                           drawn |-> drawn, seen |-> seen, nfail |-> nfail,
                           fe |-> fe])
    /\ pc' = [t \in Threads |-> "idle"]
    /\ main_pc' = next_pass(sample_i, rnd_i).main_pc
    /\ sample_i' = next_pass(sample_i, rnd_i).sample_i
    /\ rnd_i' = next_pass(sample_i, rnd_i).rnd_i
    /\ UNCHANGED <<cfgvars, exit_status, exit_by, err, fe, saved_rnd, gens,
                   ret, ulpacc_priv, passvars, drawn, seen, nfail, mvars,
                   cvars>>

\* ------------------------------------------------------------------------
\* Actions of a thread of the team
\* ------------------------------------------------------------------------

\* round_setup_t round_setup (rnd.mode): fegetround, fesetround
Enter(t) ==
    /\ Running /\ main_pc = "parallel" /\ pc[t] = "enter"
    /\ saved_rnd' = [saved_rnd EXCEPT ![t] = fe[t]]
    /\ fe' = round_setup_enter(t, CurRnd)
    /\ pc' = [pc EXCEPT ![t] = "for"]
    /\ UNCHANGED <<cfgvars, mainvars, iovars, gens, ret, ulpacc_priv,
                   passvars, histvars, mvars, cvars>>

\* fesetround (rnd) != 0 in the constructor: error (...)
EnterFails(t) ==
    /\ Running /\ main_pc = "parallel" /\ pc[t] = "enter"
    /\ saved_rnd' = [saved_rnd EXCEPT ![t] = fe[t]]
    /\ error("fesetround failed")
    /\ UNCHANGED <<cfgvars, mainvars, pc, fe, gens, ret, ulpacc_priv,
                   passvars, histvars, mvars, cvars>>

\* check_random_f, one iteration of the omp for:
\*   auto ret = funcs (gens[get_thread_num ()], dist, rnd.mode);
RandomStep(t) ==
    /\ Running /\ main_pc = "parallel" /\ pc[t] = "for"
    /\ CurSample.kind = "Sample1Arg"
    /\ next_i < Iterations(CurSample)
    /\ \E state \in {wyhash_advance(gens[gen_slot(t)])} :
       \E input \in {dist(CurSample.arg, wyhash_mix(state), fe[t])} :
       \E computed \in {CandValue(func, input, fe[t])} :
       \E expected \in {ref_func(func, input, CurRnd)} :
       \E r \in {result_f_t(CurRnd, input, computed, expected, k_max_ulp,
                             fe[t])} :
           /\ gens' = [gens EXCEPT ![gen_slot(t)] = state]
           /\ Handle(t, r, check(r))

\* check_full_f, one iteration of the omp for: auto ret = funcs (i, rnd.mode)
FullStep(t) ==
    /\ Running /\ main_pc = "parallel" /\ pc[t] = "for"
    /\ CurSample.kind = "FullRange"
    /\ next_i < Iterations(CurSample)
    /\ \E input \in {from(CurSample.start + next_i)} :
       \E computed \in {CandValue(func, input, fe[t])} :
       \E expected \in {ref_func(func, input, CurRnd)} :
       \E r \in {result_f_t(CurRnd, input, computed, expected, k_max_ulp,
                             fe[t])} :
           /\ UNCHANGED gens
           /\ Handle(t, r, check_full(r))

\* case fail_mode_t::first: #pragma omp critical  std::cerr << *ret;
\* after the line was written the worker goes on with the loop, its result
\* not counted
after_print_first_break == "for"

\* case fail_mode_t::first, the statement after the critical section:
\* std::exit (EXIT_FAILURE), before ulpaccrange[ret->ulp] += 1 is reached
after_print_first == "exit"

PrintFirst(t) ==
    /\ Running /\ pc[t] = "crit_first"
    /\ err' = Append(err, print(ret[t]))
    /\ pc' = [pc EXCEPT ![t] = after_print_first]
    /\ UNCHANGED <<cfgvars, mainvars, exit_status, exit_by, out, fe,
                   saved_rnd, gens, ret, ulpacc_priv, passvars, histvars,
                   mvars, cvars>>

\* std::exit (EXIT_FAILURE) of the first policy
ExitFirst(t) ==
    /\ Running /\ pc[t] = "exit"
    /\ exit_status' = EXIT_FAILURE
    /\ exit_by' = "check"
    /\ UNCHANGED <<cfgvars, mainvars, out, err, thrvars, passvars, histvars,
                   mvars, cvars>>

\* case fail_mode_t::all: print, break, then ulpaccrange[ret->ulp] += 1
PrintAll(t) ==
    /\ Running /\ pc[t] = "crit_all"
    /\ err' = Append(err, print(ret[t]))
    /\ ulpacc_priv' = [ulpacc_priv EXCEPT ![t] = accumulate(@, ret[t])]
    /\ pc' = [pc EXCEPT ![t] = "for"]
    /\ ret' = [ret EXCEPT ![t] = NoRet]
    /\ UNCHANGED <<cfgvars, mainvars, exit_status, exit_by, out, fe,
                   saved_rnd, gens, passvars, histvars, mvars, cvars>>

\* end of the omp for: the private copy is combined into ulpaccrange by
\* ulpacc_reduction (omp_out, omp_in) and the thread waits at the barrier
EndFor(t) ==
    /\ Running /\ main_pc = "parallel" /\ pc[t] = "for"
    /\ next_i = Iterations(CurSample)
    /\ ulpaccrange' = ulpacc_reduction(ulpaccrange, ulpacc_priv[t])
    /\ pc' = [pc EXCEPT ![t] = "barrier"]
    /\ UNCHANGED <<cfgvars, mainvars, iovars, fe, saved_rnd, gens, ret,
                   ulpacc_priv, next_i, histvars, mvars, cvars>>

\* the barrier opens only for workers that have left it
AllAtBarrier_joined_only == \A u \in Threads : pc[u] = "joined"

AllAtBarrier == \A u \in Threads : pc[u] \in {"barrier", "joined"}

\* end of the parallel block, after the barrier: ~round_setup_t ()
Leave(t) ==
    /\ Running /\ main_pc = "parallel" /\ pc[t] = "barrier"
    /\ AllAtBarrier
    /\ fe' = round_setup_leave(t)
    /\ pc' = [pc EXCEPT ![t] = "joined"]
    /\ UNCHANGED <<cfgvars, mainvars, iovars, saved_rnd, gens, ret,
                   ulpacc_priv, passvars, histvars, mvars, cvars>>

\* fesetround (saved_rnd) != 0 in the destructor: error (...)
LeaveFails(t) ==
    /\ Running /\ main_pc = "parallel" /\ pc[t] = "barrier"
    /\ AllAtBarrier
    /\ error("fesetround failed")
    /\ UNCHANGED <<cfgvars, mainvars, thrvars, passvars, histvars, mvars,
                   cvars>>

Next ==
    \/ Dispatch
    \/ DispatchInvalid
    \/ Finish
    \/ StartPass
    \/ Report
    \/ \E t \in Threads : Enter(t)
    \/ \E t \in Threads : EnterFails(t)
    \/ \E t \in Threads : RandomStep(t)
    \/ \E t \in Threads : FullStep(t)
    \/ \E t \in Threads : PrintFirst(t)
    \/ \E t \in Threads : ExitFirst(t)
    \/ \E t \in Threads : PrintAll(t)
    \/ \E t \in Threads : EndFor(t)
    \/ \E t \in Threads : Leave(t)
    \/ \E t \in Threads : LeaveFails(t)

Spec == Init /\ [][Next]_vars

\* the runs of SpecLive: the runs of Spec under one rounding mode, whose
\* passes are those of the samples of the description
InitLive == Init /\ round_modes = <<"FE_UPWARD">>

\* the steps of the thread that runs main
MainStep == Dispatch \/ DispatchInvalid \/ Finish \/ StartPass \/ Report

\* the steps of the worker t of the parallel region
WorkerStep(t) ==
    \/ Enter(t) \/ EnterFails(t)
    \/ RandomStep(t) \/ FullStep(t)
    \/ PrintFirst(t) \/ ExitFirst(t) \/ PrintAll(t)
    \/ EndFor(t)
    \/ Leave(t) \/ LeaveFails(t)

\* the run with its scheduling: main and every worker of the team are
\* threads of the process, and a thread that can take a step is not kept
\* from it forever
SpecLive ==
    /\ InitLive /\ [][Next]_vars
    /\ WF_vars(MainStep)
    /\ \A t \in Threads : WF_vars(WorkerStep(t))

\* ------------------------------------------------------------------------
\* SpecMerge: the reduction of thread-local histograms
\* ------------------------------------------------------------------------

\* a run that does nothing, for the specifications of single functions
IdleConfig ==
    /\ failmode = "none"
    /\ round_modes = <<"FE_TONEAREST">>
    /\ Samples = <<>>
    /\ func = [cand |-> "exact", pole |-> FALSE]
    /\ rng_states = [t \in Threads |-> 0]

UlpValues == {0, 1, k_max_ulp}

UlpLists == UNION { [1 .. n -> UlpValues] : n \in 0 .. MaxList }

\* one thread's loop over its share of the list: acc[ulp] += 1 for the
\* elements of list, in order, that asg gives to part p
RECURSIVE AccumulatePart(_, _, _, _)
AccumulatePart(list, asg, p, n) ==
    IF n = 0 THEN EmptyAcc
    ELSE LET rest == AccumulatePart(list, asg, p, n - 1)
         IN  IF asg[n] = p THEN ulpacc_add(rest, list[n], 1) ELSE rest

\* the whole list accumulated into one histogram
AccumulateAll(list) ==
    AccumulatePart(list, [i \in 1 .. Len(list) |-> 1], 1, Len(list))

InitMerge ==
    /\ IdleConfig /\ RunStart /\ CheckIdle
    /\ m_list \in UlpLists
    /\ \E k \in 1 .. MaxThreads :
         \E asg \in [1 .. Len(m_list) -> 1 .. k] :
            /\ m_local = [p \in 1 .. k |->
                             AccumulatePart(m_list, asg, p, Len(m_list))]
            /\ m_left = 1 .. k
    /\ m_acc = EmptyAcc

\* a private copy is combined into the reduction variable:
\* ulpacc_reduction (omp_out, omp_in) with omp_out the original variable
MergeIntoAcc(p) ==
    /\ p \in m_left
    /\ m_acc' = ulpacc_reduction(m_acc, m_local[p])
    /\ m_left' = m_left \ {p}
    /\ UNCHANGED <<runvars, cvars, m_list, m_local>>

\* two private copies are combined first (the runtime may reduce as a tree)
MergePair(p, q) ==
    /\ p \in m_left /\ q \in m_left /\ p # q
    /\ m_local' = [m_local EXCEPT ![p] = ulpacc_reduction(@, m_local[q])]
    /\ m_left' = m_left \ {q}
    /\ UNCHANGED <<runvars, cvars, m_list, m_acc>>

NextMerge ==
    \/ \E p \in DOMAIN m_local : MergeIntoAcc(p)
    \/ \E p \in DOMAIN m_local : \E q \in DOMAIN m_local : MergePair(p, q)

SpecMerge == InitMerge /\ [][NextMerge]_vars

\* ------------------------------------------------------------------------
\* SpecCheck: result_t::check_full on pairs of binary32 values
\* ------------------------------------------------------------------------

\* magnitudes: two signaling NaNs, two quiet NaNs, infinity, zero, the
\* smallest subnormal, the smallest normal and two of its neighbours
CheckMags ==
    { InfMag + 1, InfMag + 2097152, QNaNMag, QNaNMag + 4194303, InfMag,
      0, 1, MinNormalMag, MinNormalMag + 3, MinNormalMag + k_max_ulp }

CheckValues == { F32(sg, m) : sg \in {0, 1}, m \in CheckMags }

InitCheck ==
    /\ IdleConfig /\ RunStart /\ MergeIdle
    /\ c_args \in CheckValues \X CheckValues
    /\ c_verdict = "none"

\* the result is built from (computed, expected) and check_full is called
CheckFull ==
    /\ c_verdict = "none"
    /\ LET r == result_f_t("FE_TONEAREST", F32(0, 0), c_args[1], c_args[2],
                           k_max_ulp, "FE_TONEAREST")
       IN  c_verdict' = IF check_full(r) THEN "true" ELSE "false"
    /\ UNCHANGED <<runvars, mvars, c_args>>

NextCheck == CheckFull

SpecCheck == InitCheck /\ [][NextCheck]_vars

\* ------------------------------------------------------------------------
\* The result of a function with two outputs: result_f_fp_fp_t
\* ------------------------------------------------------------------------

\* result_f_fp_fp_t::calc_ulp: the distance of one pair, 0.0 when it is NaN
\* or infinite and at most max
calc_ulp(computed, expected, max, fenv) ==
    LET d == ulpdiff(computed, expected, fenv)
    IN  IF ~d.fin THEN 0
        ELSE IF d.v >= max THEN max ELSE d.v

\* result_f_fp_fp_t (r, i, c1, c2, e1, e2, m), constructed under the
\* rounding mode fenv: ulp is the larger of the distances of the two pairs
result_f_fp_fp_t(r, i, c1, c2, e1, e2, m, fenv) ==
    LET ulp0 == calc_ulp(c1, e1, m, fenv)
        ulp1 == calc_ulp(c2, e2, m, fenv)
    IN  [rnd |-> round_mode_from_rnd(r), input |-> i,
         computed1 |-> c1, computed2 |-> c2,
         expected1 |-> e1, expected2 |-> e2,
         ulp |-> IF ulp1 > ulp0 THEN ulp1 ELSE ulp0, max |-> m]

\* result_f_fp_fp_t::check
check_fp_fp(v) == v.ulp < v.max

\* result_f_fp_fp_t::check_full: the first test names expected2 twice and
\* expected1 not at all, and the test after the infinities is check ()
check_full_fp_fp(v) ==
    IF issignaling(v.computed1) \/ issignaling(v.computed2)
       \/ issignaling(v.expected2) \/ issignaling(v.expected2) THEN FALSE
    ELSE IF (isnan(v.computed1) /\ isnan(v.expected1))
            /\ (isnan(v.computed2) /\ isnan(v.expected2)) THEN TRUE
    ELSE IF (isinf(v.computed1) /\ isinf(v.expected1))
            /\ (isinf(v.computed2) /\ isinf(v.expected2))
         THEN /\ signbit(v.computed1) = signbit(v.expected1)
              /\ signbit(v.computed2) = signbit(v.expected2)
    ELSE check_fp_fp(v)

\* a signaling and a quiet NaN, the infinities, and finite values max ulps
\* and less apart
PairMags ==
    { InfMag + 1, QNaNMag, InfMag, MinNormalMag, MinNormalMag + 3,
      MinNormalMag + k_max_ulp }

PairValues ==
    { F32(0, m) : m \in PairMags } \cup { F32(1, InfMag) }

InitCheckPair ==
    /\ IdleConfig /\ RunStart /\ MergeIdle
    /\ c_args \in PairValues \X PairValues \X PairValues \X PairValues
    /\ c_verdict = "none"

\* the result is built from (computed1, computed2, expected1, expected2)
\* and check_full is called
CheckFullPair ==
    /\ c_verdict = "none"
    /\ LET v == result_f_fp_fp_t("FE_TONEAREST", F32(0, 0), c_args[1],
                                 c_args[2], c_args[3], c_args[4],
                                 k_max_ulp, "FE_TONEAREST")
       IN  c_verdict' = IF check_full_fp_fp(v) THEN "true" ELSE "false"
    /\ UNCHANGED <<runvars, mvars, c_args>>

NextCheckPair == CheckFullPair

SpecCheckPair == InitCheckPair /\ [][NextCheckPair]_vars

\* ------------------------------------------------------------------------
\* SpecUlp: result_t::check on pairs of finite binary32 values, with the
\* result constructed under each rounding mode
\* ------------------------------------------------------------------------

\* magnitudes: zero, the smallest subnormal, the largest subnormal, the
\* smallest normal and values 8 and k_max_ulp places above it, the largest
\* value of its binade, 2^-105 and the value below it, 1.0, the largest
\* finite value
UlpMags ==
    { 0, 1, MinNormalMag - 1, MinNormalMag, MinNormalMag + 8,
      MinNormalMag + k_max_ulp, 2 * MinNormalMag - 1, 22 * MinNormalMag,
      22 * MinNormalMag - 1, 127 * MinNormalMag, InfMag - 1 }

UlpArgs == { F32(sg, m) : sg \in {0, 1}, m \in UlpMags }

RoundModeSet == { k_round_modes[i] : i \in 1 .. Len(k_round_modes) }

InitUlp ==
    /\ IdleConfig /\ RunStart /\ MergeIdle
    /\ c_args \in UlpArgs \X UlpArgs \X RoundModeSet
    /\ c_verdict = "none"

\* the result is built from (computed, expected) under the mode c_args[3]
\* and check is called
Check ==
    /\ c_verdict = "none"
    /\ Len(c_args) = 3
    /\ LET r == result_f_t(c_args[3], F32(0, 0), c_args[1], c_args[2],
                           k_max_ulp, c_args[3])
       IN  c_verdict' = IF check(r) THEN "true" ELSE "false"
    /\ UNCHANGED <<runvars, mvars, c_args>>

NextUlp == Check

SpecUlp == InitUlp /\ [][NextUlp]_vars

\* ------------------------------------------------------------------------
\* the rounding option: round_from_option and default_round_option
\* ------------------------------------------------------------------------

\* the longest list of tokens in an option string of SpecRound
MaxTokens == 3

\* round_mode_t::round_name (rnd, true): the abbreviation, as characters
abbrev(rnd) ==
    CASE rnd = "FE_TONEAREST"  -> <<"r", "n", "d", "n">>
      [] rnd = "FE_UPWARD"     -> <<"r", "n", "d", "u">>
      [] rnd = "FE_DOWNWARD"   -> <<"r", "n", "d", "d">>
      [] rnd = "FE_TOWARDZERO" -> <<"r", "n", "d", "z">>

\* the index of the first delimiter in s, 0 when there is none
FindDelim(s) ==
    IF \E i \in DOMAIN s : s[i] = ","
    THEN CHOOSE i \in DOMAIN s :
            s[i] = "," /\ \A j \in 1 .. (i - 1) : s[j] # ","
    ELSE 0

RECURSIVE SplitFrom(_)
\* the subranges of a non-empty input of std::views::split: the text
\* before each delimiter and the text after the last one, empty or not
SplitFrom(s) ==
    LET i == FindDelim(s)
    IN  IF i = 0
        THEN <<s>>
        ELSE <<SubSeq(s, 1, i - 1)>> \o SplitFrom(SubSeq(s, i + 1, Len(s)))

\* the string is not split: it is one token
split_with_ranges_whole(s) == <<s>>

\* split_with_ranges (s, ","): an empty string has no subrange
split_with_ranges(s) == IF s = <<>> THEN <<>> ELSE SplitFrom(s)

\* std::find (k_round_modes.begin (), k_round_modes.end (), rnd): the index
\* of the first mode whose abbreviation is the token, 0 for end ()
find_round_mode(rnd) ==
    IF \E i \in DOMAIN k_round_modes : abbrev(k_round_modes[i]) = rnd
    THEN CHOOSE i \in DOMAIN k_round_modes :
            /\ abbrev(k_round_modes[i]) = rnd
            /\ \A j \in 1 .. (i - 1) : abbrev(k_round_modes[j]) # rnd
    ELSE 0

\* ret.push_back (*it)
push_back(v, mode) == Append(v, mode)

RECURSIVE round_from_tokens(_, _)
\* the loop of round_from_option over the tokens: it ends with the modes
\* selected, or with the error of the first token that is no abbreviation
\* or names a mode a second time
round_from_tokens(tokens, v) ==
    IF tokens = <<>>
    THEN [ret |-> v, error |-> "none"]
    ELSE LET it == find_round_mode(Head(tokens))
         IN  IF it = 0
             THEN [ret |-> v, error |-> "invalid rounding mode"]
             ELSE IF \E i \in DOMAIN v : v[i] = k_round_modes[it]
             THEN [ret |-> v, error |-> "rounding mode already defined"]
             ELSE round_from_tokens(Tail(tokens),
                                    push_back(v, k_round_modes[it]))

\* the modes selected before a token that is refused are used, without an
\* error
round_from_option_lenient(rnds) ==
    [ret |-> round_from_tokens(split_with_ranges(rnds), <<>>).ret,
     error |-> "none"]

\* round_from_option (rnds): the tokens of the option, taken in order
round_from_option(rnds) == round_from_tokens(split_with_ranges(rnds), <<>>)

RECURSIVE JoinFrom(_, _)
\* std::accumulate over the modes left, adding ',' and the abbreviation
JoinFrom(acc, modes) ==
    IF modes = <<>>
    THEN acc
    ELSE JoinFrom(acc \o <<",">> \o abbrev(Head(modes)), Tail(modes))

\* default_round_option: the abbreviations of the table, joined by ','
default_round_option ==
    IF k_round_modes = <<>>
    THEN <<>>
    ELSE JoinFrom(abbrev(Head(k_round_modes)), Tail(k_round_modes))

\* tokens of the option strings: the abbreviations, a token that is none,
\* and the empty token
OptionTokens ==
    { abbrev(k_round_modes[i]) : i \in DOMAIN k_round_modes }
        \cup { <<"x">>, <<>> }

RECURSIVE JoinTokens(_)
JoinTokens(tokens) ==
    IF tokens = <<>> THEN <<>>
    ELSE IF Len(tokens) = 1 THEN Head(tokens)
    ELSE Head(tokens) \o <<",">> \o JoinTokens(Tail(tokens))

\* values of the option -r
RoundOptions ==
    { JoinTokens(l) :
        l \in UNION { [1 .. n -> OptionTokens] : n \in 0 .. MaxTokens } }

\* main: the option -r is given on the command line, or it is absent and
\* has its default_value
InitRound ==
    /\ IdleConfig /\ RunStart /\ MergeIdle
    /\ c_args \in { [given |-> FALSE, rounding |-> default_round_option] }
                    \cup { [given |-> TRUE, rounding |-> o] :
                              o \in RoundOptions }
    /\ c_verdict = [called |-> FALSE, ret |-> <<>>, error |-> "none"]

\* main: round_modes = round_from_option (options.get ("-r"))
RoundFromOption ==
    /\ ~c_verdict.called
    /\ c_verdict' = [called |-> TRUE,
                     ret |-> round_from_option(c_args.rounding).ret,
                     error |-> round_from_option(c_args.rounding).error]
    /\ UNCHANGED <<runvars, mvars, c_args>>

NextRound == RoundFromOption

SpecRound == InitRound /\ [][NextRound]_vars

\* ------------------------------------------------------------------------
\* the full ranges: floatrange::Limits and handleFullRange
\* ------------------------------------------------------------------------

\* a bit pattern is the sequence of its 16-bit words, the high word first:
\* two words for binary32 and four for binary64
WordMod == 65536

RECURSIVE WordsLess(_, _)
\* a < b for patterns of the same length
WordsLess(a, b) ==
    IF a = <<>> THEN FALSE
    ELSE IF Head(a) # Head(b) THEN Head(a) < Head(b)
    ELSE WordsLess(Tail(a), Tail(b))

\* floatrange::Limits<float>
LimitsFloat ==
    [PlusNormalMin    |-> <<128, 0>>,             \* 0x00800000
     PlusNormalMax    |-> <<32639, 65535>>,       \* 0x7F7FFFFF
     PlusSubnormalMin |-> <<0, 1>>,               \* 0x00000001
     PlusSubnormalMax |-> <<127, 65535>>,         \* 0x007FFFFF
     NegNormalMin     |-> <<32896, 0>>,           \* 0x80800000
     NegNormalMax     |-> <<65407, 65535>>,       \* 0xFF7FFFFF
     NegSubnormalMin  |-> <<32768, 1>>,           \* 0x80000001
     NegSubnormalMax  |-> <<32895, 65535>>]       \* 0x807FFFFF

\* floatrange::Limits<double>
LimitsDouble ==
    [PlusNormalMin    |-> <<8, 0, 0, 0>>,                 \* 0x0008000000000000
     PlusNormalMax    |-> <<32751, 65535, 65535, 65535>>, \* 0x7FEFFFFFFFFFFFFF
     PlusSubnormalMin |-> <<0, 0, 0, 1>>,                 \* 0x0000000000000001
     PlusSubnormalMax |-> <<15, 65535, 65535, 65535>>,    \* 0x000FFFFFFFFFFFFF
     NegNormalMin     |-> <<32776, 0, 0, 0>>,             \* 0x8008000000000000
     NegNormalMax     |-> <<65519, 65535, 65535, 65535>>, \* 0xFFEFFFFFFFFFFFFF
     NegSubnormalMin  |-> <<32768, 0, 0, 1>>,             \* 0x8000000000000001
     NegSubnormalMax  |-> <<32783, 65535, 65535, 65535>>] \* 0x800FFFFFFFFFFFFF

\* Description::FullRange{ name, start, end }
NamedRange(name, start, end) == [FullRange(start, end) EXCEPT !.name = name]

\* handleFullRange, name == "normal": the positive and the negative range
normal_ranges(limits) ==
    <<NamedRange("positive normal", limits.PlusNormalMin,
                 limits.PlusNormalMax),
      NamedRange("negative normal", limits.NegNormalMin,
                 limits.NegNormalMax)>>

\* handleFullRange, name == "subnormal"
subnormal_ranges(limits) ==
    <<NamedRange("positive subnormal", limits.PlusSubnormalMin,
                 limits.PlusSubnormalMax),
      NamedRange("negative subnormal", limits.NegSubnormalMin,
                 limits.NegSubnormalMax)>>

\* handleFullRange: the ranges of the keyword for the function type, or
\* the error
handleFullRange(functype, name) ==
    LET isfloat == functype \in {"f32_f", "f32_f_fp_fp"}
        isdouble == functype \in {"f64_f", "f64_f_fp_fp"}
    IN  CASE name = "normal" /\ isfloat ->
               [error |-> "none", ranges |-> normal_ranges(LimitsFloat)]
          [] name = "normal" /\ isdouble ->
               [error |-> "none",
                ranges |-> normal_ranges(LimitsDouble)]
          [] name = "subnormal" /\ isfloat ->
               [error |-> "none",
                ranges |-> subnormal_ranges(LimitsFloat)]
          [] name = "subnormal" /\ isdouble ->
               [error |-> "none",
                ranges |-> subnormal_ranges(LimitsDouble)]
          [] name \in {"normal", "subnormal"} /\ ~isfloat /\ ~isdouble ->
               [error |-> "invalid function type", ranges |-> <<>>]
          [] OTHER -> [error |-> "invalid full range", ranges |-> <<>>]

\* words of the bit patterns of SpecRange: the ends of the exponent fields
\* and of the fractions
HighWordsFloat ==
    { 0, 127, 128, 32639, 32640, 32768, 32895, 32896, 65407, 65408 }

HighWordsDouble ==
    { 0, 7, 8, 15, 16, 32751, 32752, 32768, 32775, 32776, 32783, 32784,
      65519, 65520 }

LowWords == { 0, 1, WordMod - 1 }

PatternsFloat == { <<h, l>> : h \in HighWordsFloat, l \in LowWords }

PatternsDouble ==
    { <<h, l[1], l[2], l[3]>> :
        h \in HighWordsDouble, l \in LowWords \X LowWords \X LowWords }

FullNames == { "normal", "subnormal", "zero" }

\* a function type, a keyword of data["full"] and a bit pattern of the
\* width of the function type
InitRange ==
    /\ IdleConfig /\ RunStart /\ MergeIdle
    /\ c_args \in
          { [functype |-> "f32_f", name |-> n, u |-> u] :
              n \in FullNames, u \in PatternsFloat }
          \cup { [functype |-> "f64_f", name |-> n, u |-> u] :
                    n \in FullNames, u \in PatternsDouble }
          \cup { [functype |-> "f32_f_f", name |-> n, u |-> u] :
                    n \in FullNames, u \in { <<0, 1>> } }
    /\ c_verdict = [called |-> FALSE, error |-> "none", ranges |-> <<>>]

\* Description::parse: handleFullRange (functype, name)
HandleFullRange ==
    /\ ~c_verdict.called
    /\ c_verdict' =
          [called |-> TRUE,
           error |-> handleFullRange(c_args.functype, c_args.name).error,
           ranges |-> handleFullRange(c_args.functype, c_args.name).ranges]
    /\ UNCHANGED <<runvars, mvars, c_args>>

NextRange == HandleFullRange

SpecRange == InitRange /\ [][NextRange]_vars

\* ------------------------------------------------------------------------
\* Properties
\* ------------------------------------------------------------------------

Range(q) == { q[i] : i \in DOMAIN q }

Count(q, v) == Cardinality({ i \in DOMAIN q : q[i] = v })

SameMultiset(a, b) ==
    \A v \in Range(a) \cup Range(b) : Count(a, v) = Count(b, v)

\* the histogram of a list of ULP values, by counting
HistogramOf(list) == [v \in Range(list) |-> Count(list, v)]

\* diagnostic lines of samples on std::cerr
SampleLines == { i \in DOMAIN err : err[i].kind = "sample" }

RECURSIVE SumFail(_, _)
SumFail(l, n) == IF n = 0 THEN 0 ELSE l[n].nfail + SumFail(l, n - 1)

\* a thread inside the sampling loop of the current pass
InLoop(t) == pc[t] \in {"for", "crit_first", "crit_all", "exit"}

InCritAll == { t \in Threads : pc[t] = "crit_all" }

RECURSIVE SumPriv(_)
SumPriv(T) ==
    IF T = {} THEN 0
    ELSE LET t == Min(T) IN ulptotal(ulpacc_priv[t]) + SumPriv(T \ {t})

\* samples counted so far in this pass: the reduction variable and the
\* private copies not yet combined into it
AccTotal ==
    ulptotal(ulpaccrange)
        + SumPriv({ t \in Threads : pc[t] \notin {"barrier", "joined", "idle"} })

\* failed checks of the pass in progress
PassFail == IF main_pc = "parallel" THEN nfail ELSE 0

\* the check a pass applies to a result
PassCheck(r) ==
    IF CurSample.kind = "FullRange" THEN check_full(r) ELSE check(r)

\* C1: all threads that are inside the sampling loop at the same time have
\* the same rounding mode, the mode of the current pass.
C1_SingleActiveMode ==
    \A t1 \in Threads : \A t2 \in Threads :
        InLoop(t1) /\ InLoop(t2) => fe[t1] = fe[t2] /\ fe[t1] = CurRnd

\* two threads have both evaluated samples of the second pass, under a
\* directed mode
C1_Witness ==
    /\ rnd_i = 2 /\ CurRnd = "FE_UPWARD"
    /\ \E t1 \in Threads : \E t2 \in Threads :
          /\ t1 # t2 /\ InLoop(t1) /\ InLoop(t2)
          /\ Len(drawn[t1]) >= 1 /\ Len(drawn[t2]) >= 1

\* C2 (as claimed): when the process has ended, by main returning or by the
\* exit of the first policy, every thread that entered a rounding scope has
\* the rounding mode it saved on entry.
C2_RestoredOnEveryExit ==
    exit_by \in {"main", "check"} =>
        \A t \in Threads :
            pc[t] \notin {"idle", "enter"} => fe[t] = saved_rnd[t]

\* C3: under the first policy a failed check ends the process with a
\* non-zero status after the line of the failing sample was written to
\* std::cerr; the pass of a failed check never completes, so that no later
\* pass is sampled.
C3_FirstFailureFatal ==
    failmode = "first" =>
        /\ \A t \in Threads : pc[t] # "crit_all"
        /\ \A t \in Threads :
              pc[t] \in {"crit_first", "exit"} =>
                 /\ ~PassCheck(ret[t])
                 /\ ret[t].rnd = CurRnd
        /\ \A t \in Threads :
              pc[t] = "exit" =>
                 /\ \E i \in SampleLines : err[i] = print(ret[t])
                 /\ print(ret[t]).rnd = CurRnd
        /\ exit_by = "check" =>
              /\ exit_status = EXIT_FAILURE
              /\ exit_status # 0
              /\ \E t \in Threads : pc[t] = "exit"
        /\ \A i \in SampleLines : err[i].rnd = CurRnd
        /\ nfail > 0 =>
              /\ main_pc = "parallel"
              /\ \E t \in Threads : pc[t] \in {"crit_first", "exit"}
        /\ \A i \in DOMAIN log : log[i].nfail = 0
        /\ Len(out) = Len(log)

\* the process was ended by a failed check after an earlier pass completed
C3_Witness ==
    /\ failmode = "first"
    /\ exit_by = "check"
    /\ Len(out) >= 1

\* C4: under the all policy a failed check never ends the process; every
\* failing sample is printed and counted, and the pass runs all its
\* iterations.
C4_AllPrintsAndCounts ==
    failmode = "all" =>
        /\ exit_by # "check"
        /\ \A t \in Threads : pc[t] \notin {"crit_first", "exit"}
        /\ Cardinality(SampleLines)
              = SumFail(log, Len(log)) + PassFail - Cardinality(InCritAll)
        /\ main_pc = "parallel" =>
              AccTotal = next_i - Cardinality(InCritAll)
        /\ \A i \in DOMAIN out :
              /\ out[i].acc = log[i].seen
              /\ out[i].total = Iterations(out[i].sample)

\* a pass with a failing sample has been reported under the all policy
C4_Witness ==
    /\ failmode = "all"
    /\ \E i \in DOMAIN log :
          /\ log[i].nfail >= 1
          /\ out[i].total = Iterations(out[i].sample)
          /\ Cardinality(SampleLines) >= 1

\* C5: under the none and all policies no failed check ends the process:
\* it exits 0 unless error () ended it; under none no sample is printed
\* and the failing samples are counted in the reported histogram.
C5_NoneAllExitZero ==
    failmode \in {"none", "all"} =>
        /\ exit_by # "check"
        /\ exit_by = "main" => exit_status = 0
        /\ exit_status \notin {-1, 0} => exit_by = "error"
        /\ failmode = "none" =>
              /\ SampleLines = {}
              /\ \A t \in Threads : pc[t] \notin {"crit_first", "crit_all", "exit"}
              /\ \A i \in DOMAIN out : out[i].acc = log[i].seen

\* a run under none with a failing sample has exited with status 0
C5_Witness ==
    /\ failmode = "none"
    /\ exit_status = 0
    /\ \E i \in DOMAIN log : log[i].nfail >= 1

\* C6 (as claimed): two completed passes of the same random sample under
\* different modes, with the same number of draws in every slot, have drawn
\* the same multiset of inputs in every slot.
C6_SameInputsAcrossModes ==
    \A i \in DOMAIN log : \A j \in DOMAIN log :
        ( /\ log[i].sample = log[j].sample
          /\ Samples[log[i].sample].kind = "Sample1Arg"
          /\ \A t \in Threads : Len(log[i].drawn[t]) = Len(log[j].drawn[t]) )
        => \A t \in Threads : SameMultiset(log[i].drawn[t], log[j].drawn[t])

\* C7: the histogram reported for a completed random pass counts every
\* draw once, in the bucket of its ULP value: its buckets sum to count,
\* and it is {0: count} when the candidate agrees with the oracle.
C7_HistogramCountsEveryDraw ==
    \A i \in DOMAIN out :
        out[i].sample.kind = "Sample1Arg" =>
            /\ ulptotal(out[i].acc) = out[i].sample.count
            /\ out[i].acc = log[i].seen
            /\ func.cand = "exact" =>
                  \A k \in DOMAIN out[i].acc :
                      k = 0 /\ out[i].acc[k] = out[i].sample.count

\* a random pass under FE_UPWARD in which each of two threads drew, with an
\* exact candidate, has been reported
C7_Witness ==
    \E i \in DOMAIN out :
        /\ out[i].sample.kind = "Sample1Arg"
        /\ out[i].rnd = "FE_UPWARD"
        /\ func.cand = "exact"
        /\ out[i].sample.count >= 2
        /\ \E t1 \in Threads : \E t2 \in Threads :
              /\ t1 # t2
              /\ Len(log[i].drawn[t1]) >= 1 /\ Len(log[i].drawn[t2]) >= 1

\* C8 (as claimed): a completed full-range pass has evaluated every bit
\* pattern of [start, end] exactly once, end included, and its histogram
\* counts end - start + 1 samples.
C8_FullRangeClosed ==
    \A i \in DOMAIN out :
        out[i].sample.kind = "FullRange" =>
            /\ ulptotal(out[i].acc) = out[i].sample.end - out[i].sample.start + 1
            /\ \A n \in out[i].sample.start .. out[i].sample.end :
                  Cardinality({ <<t, k>> \in Threads \X (1 .. MaxCount + 1) :
                                  /\ k <= Len(log[i].drawn[t])
                                  /\ log[i].drawn[t][k] = n }) = 1

\* C9: thread-local histograms reduced in any order and grouping give the
\* histogram of the whole list, and the reduction of two of them does not
\* depend on their order.
C9_MergeAnyOrder ==
    /\ m_left = {} => m_acc = HistogramOf(m_list)
    /\ \A p \in m_left : \A q \in m_left :
          ulpacc_reduction(m_local[p], m_local[q])
              = ulpacc_reduction(m_local[q], m_local[p])

\* a list with a repeated value and two values, split into at least two
\* non-empty histograms, has been reduced
C9_Witness ==
    /\ m_left = {}
    /\ Len(m_list) >= 3
    /\ Cardinality(DOMAIN m_acc) >= 2
    /\ \E k \in DOMAIN m_acc : m_acc[k] >= 2
    /\ \E p \in DOMAIN m_local : \E q \in DOMAIN m_local :
          p # q /\ m_local[p] # EmptyAcc /\ m_local[q] # EmptyAcc

\* value classes of binary32, from the fields of the encoding
ExpField(x) == x.mag \div MinNormalMag
FracField(x) == x.mag % MinNormalMag
IsNaNClass(x) == ExpField(x) = 255 /\ FracField(x) # 0
IsInfClass(x) == ExpField(x) = 255 /\ FracField(x) = 0
IsSNaNClass(x) == IsNaNClass(x) /\ (FracField(x) \div QuietBit) % 2 = 0
IsSpecial(x) == IsNaNClass(x) \/ IsInfClass(x)

CheckResult ==
    result_f_t("FE_TONEAREST", F32(0, 0), c_args[1], c_args[2], k_max_ulp,
               "FE_TONEAREST")

Verdict(b) == IF b THEN "true" ELSE "false"

\* C10 (amended): check_full is false if either value is a signaling NaN;
\* else true if both are NaN; else, if both are infinite, whether their
\* signs are equal; else false if at least one of the two is infinite or
\* NaN; else the result of check.
C10_CheckFullClasses ==
    c_verdict # "none" =>
        LET c == c_args[1]
            e == c_args[2]
        IN  c_verdict =
              Verdict(IF IsSNaNClass(c) \/ IsSNaNClass(e) THEN FALSE
                      ELSE IF IsNaNClass(c) /\ IsNaNClass(e) THEN TRUE
                      ELSE IF IsInfClass(c) /\ IsInfClass(e) THEN c.s = e.s
                      ELSE IF IsSpecial(c) \/ IsSpecial(e) THEN FALSE
                      ELSE check(CheckResult))

\* C10 (as claimed): the fourth case is "exactly one of the two is infinite
\* or NaN", so that an infinity against a quiet NaN falls through to check.
C10_AsClaimed ==
    c_verdict # "none" =>
        LET c == c_args[1]
            e == c_args[2]
        IN  c_verdict =
              Verdict(IF IsSNaNClass(c) \/ IsSNaNClass(e) THEN FALSE
                      ELSE IF IsNaNClass(c) /\ IsNaNClass(e) THEN TRUE
                      ELSE IF IsInfClass(c) /\ IsInfClass(e) THEN c.s = e.s
                      ELSE IF IsSpecial(c) # IsSpecial(e) THEN FALSE
                      ELSE check(CheckResult))

\* check_full has returned false for an infinity against a quiet NaN
C10_Witness ==
    /\ c_verdict = "false"
    /\ IsInfClass(c_args[1])
    /\ IsNaNClass(c_args[2]) /\ ~IsSNaNClass(c_args[2])

\* |c - e| >= t * 2^UExp (e), that is t ulps of e, in exact arithmetic
DistAtLeast(c, e, t) ==
    IF c.s # e.s
    THEN Sig(e) >= t \/ CmpScaled(Sig(c), UExp(c), t - Sig(e), UExp(e)) >= 0
    ELSE \/ CmpScaled(Sig(c), UExp(c), Sig(e) + t, UExp(e)) >= 0
         \/ /\ Sig(e) >= t
            /\ CmpScaled(Sig(e) - t, UExp(e), Sig(c), UExp(c)) >= 0

\* C11 (as claimed): for finite computed and expected, check returns false
\* exactly when |computed - expected| >= max * ulp (expected), under every
\* rounding mode.
C11_CheckIsThreshold ==
    (c_verdict # "none" /\ Len(c_args) = 3) =>
        (c_verdict = "false"
            <=> DistAtLeast(c_args[1], c_args[2], k_max_ulp))

\* the sample and the mode of the n-th pass when samples are the outer loop
SampleOfPass(n) == ((n - 1) \div Len(round_modes)) + 1
ModeOfPass(n) == round_modes[((n - 1) % Len(round_modes)) + 1]

Inconsistent ==
    \E d \in Descriptions :
        /\ \E i \in DOMAIN d : "y" \in DOMAIN d[i]
        /\ Samples \in parse(FuncType, d)

\* C13 (as claimed): a run whose description has a sample that does not
\* match the function's shape evaluates no sample and prints no report:
\* no pass is started, nothing is drawn and standard output stays empty,
\* and the run never ends with exit status 0.
C13_InconsistentFailsBeforeSampling ==
    Inconsistent =>
        /\ main_pc # "parallel"
        /\ log = <<>>
        /\ out = <<>>
        /\ exit_status # 0

\* the number of passes completed before the pass the run is in
PassesBefore == (sample_i - 1) * Len(round_modes) + (rnd_i - 1)

\* C14: the report of a pass is written when the pass completes: when a
\* failure under the policy "first" ends the process during a pass, the
\* reports of all the passes completed before it are on standard output,
\* one per pass and in the order of the passes.
C14_ReportsBeforeAbort ==
    exit_by = "check" =>
        /\ failmode = "first"
        /\ Len(out) = PassesBefore
        /\ \A n \in 1 .. PassesBefore :
              /\ out[n].rnd = ModeOfPass(n)
              /\ out[n].sample = Samples[SampleOfPass(n)]
              /\ out[n].acc = log[n].seen

\* a failure under "first" has ended the process in the third pass of a
\* run, after two passes were completed
C14_Witness ==
    /\ exit_by = "check"
    /\ PassesBefore = 2
    /\ Len(out) = 2

\* C15: when the option -r is not given, the modes tested are FE_TONEAREST,
\* FE_UPWARD, FE_DOWNWARD and FE_TOWARDZERO, each once and in that order:
\* round_from_option of the default option string returns the whole table
\* of modes unchanged, without an error.
C15_DefaultIsWholeTable ==
    (c_verdict.called /\ ~c_args.given) =>
        /\ c_verdict.error = "none"
        /\ c_verdict.ret = k_round_modes
        /\ c_verdict.ret =
              <<"FE_TONEAREST", "FE_UPWARD", "FE_DOWNWARD", "FE_TOWARDZERO">>

\* the default option string has been parsed into four modes
C15_Witness ==
    /\ c_verdict.called
    /\ ~c_args.given
    /\ c_args.rounding = JoinTokens([i \in DOMAIN k_round_modes |->
                                       abbrev(k_round_modes[i])])
    /\ Len(c_verdict.ret) = 4

\* the modes of l are in the order of the table k_round_modes
CanonicalOrder(l) ==
    \A i \in DOMAIN l : \A j \in DOMAIN l :
        i < j => find_round_mode(abbrev(l[i])) < find_round_mode(abbrev(l[j]))

\* C16 (as claimed): for every accepted option the selected modes are in
\* the order of the table, whatever the order of the abbreviations in the
\* option string, and FE_TONEAREST is first whenever it is selected.
C16_CanonicalOrder ==
    (c_verdict.called /\ c_verdict.error = "none") =>
        /\ CanonicalOrder(c_verdict.ret)
        /\ (\E i \in DOMAIN c_verdict.ret : c_verdict.ret[i] = "FE_TONEAREST")
              => c_verdict.ret[1] = "FE_TONEAREST"

\* C17 (as claimed): every sample for which a pass is started satisfies the
\* invariants of the data model: a random sample has count > 0 and
\* start <= end, and a full range has start <= end.
C17_SampledSpecsValid ==
    main_pc = "parallel" =>
        /\ CurSample.kind = "Sample1Arg" =>
              /\ CurSample.count > 0
              /\ CurSample.arg.start <= CurSample.arg.end
        /\ CurSample.kind = "FullRange" =>
              CurSample.start <= CurSample.end

\* the sign bit, the biased exponent and "the fraction is zero" of a bit
\* pattern of two words (binary32) or four (binary64)
SignOf(u) == u[1] \div 32768

BiasedExp(u) ==
    IF Len(u) = 2 THEN (u[1] % 32768) \div 128 ELSE (u[1] % 32768) \div 16

FracIsZero(u) ==
    /\ (IF Len(u) = 2 THEN u[1] % 128 ELSE u[1] % 16) = 0
    /\ \A i \in 2 .. Len(u) : u[i] = 0

MaxBiasedExp(u) == IF Len(u) = 2 THEN 254 ELSE 2046

\* the class the keyword names
InClass(u, name) ==
    IF name = "normal"
    THEN BiasedExp(u) >= 1 /\ BiasedExp(u) <= MaxBiasedExp(u)
    ELSE BiasedExp(u) = 0 /\ ~FracIsZero(u)

\* start <= u <= end
InBounds(u, r) == ~WordsLess(u, r.start) /\ ~WordsLess(r.end, u)

\* C18 (as claimed): for each width and each sign, the bounds of the
\* keyword "normal" contain all and only the normal bit patterns of that
\* sign, and the bounds of "subnormal" all and only the non-zero subnormal
\* bit patterns of that sign.
C18_BoundsAreTheClass ==
    (c_verdict.called /\ c_verdict.error = "none") =>
        /\ Len(c_verdict.ranges) = 2
        /\ \A i \in 1 .. 2 :
              InBounds(c_args.u, c_verdict.ranges[i])
                  <=> (InClass(c_args.u, c_args.name)
                          /\ SignOf(c_args.u) = i - 1)

RECURSIVE AdvanceN(_, _)
\* the state of a generator after n draws from the state given
AdvanceN(state, n) ==
    IF n = 0 THEN state ELSE AdvanceN(wyhash_advance(state), n - 1)

\* in a random pass the generator of every slot is in the state reached
\* from the seed captured for the slot by the draws of this pass alone
GensFromSeeds ==
    (main_pc = "parallel" /\ CurSample.kind = "Sample1Arg") =>
        \A t \in Threads :
            gens[gen_slot(t)] = AdvanceN(rng_states[gen_slot(t)], Len(drawn[t]))

\* C20: at the start of every pass of a random sample the generator of
\* each worker slot is in the state given by the seed captured for the slot
\* at start-up, not in the state the previous pass left, and no step of a
\* run modifies the captured seeds.
C20_ReseededEveryPass ==
    /\ [](GensFromSeeds)
    /\ [][rng_states' = rng_states]_vars

\* a second pass of a random sample has started from the seeds after a
\* first pass in which every worker drew
C20_Witness ==
    /\ main_pc = "parallel" /\ CurSample.kind = "Sample1Arg"
    /\ Len(log) >= 1
    /\ log[Len(log)].sample = sample_i
    /\ \A t \in Threads :
          /\ Len(log[Len(log)].drawn[t]) >= 1
          /\ drawn[t] = <<>>
          /\ gens[gen_slot(t)] = rng_states[gen_slot(t)]

\* the run has ended: every configured pass has been sampled and reported
\* and main has returned, or the process has been ended by a fatal failure
AllPassesReported ==
    /\ exit_by = "main" /\ exit_status = 0
    /\ Len(out) = Len(Samples) * Len(round_modes)

FatalFailure == exit_by \in {"check", "error"} /\ exit_status = EXIT_FAILURE

\* C19: every run eventually ends in one of two ways, with all the passes
\* sampled and reported or with the process ended by a fatal failure, and
\* a worker at the barrier that ends a pass does not wait forever: it
\* leaves the barrier or the process is ended.
C19_RunTerminates ==
    /\ <>(AllPassesReported \/ FatalFailure)
    /\ [](~Running => (AllPassesReported \/ FatalFailure))
    /\ \A t \in Threads :
          (pc[t] = "barrier") ~> (pc[t] = "joined" \/ ~Running)

\* a worker waits at the barrier of a pass while another worker, whose
\* check has failed under "first", is about to end the process
C19_Witness ==
    /\ Running /\ failmode = "first"
    /\ \E t \in Threads : \E u \in Threads :
          pc[t] = "barrier" /\ pc[u] = "exit"

RECURSIVE MergeAll(_)
\* the private histograms of the workers of T, merged
MergeAll(T) ==
    IF T = {} THEN EmptyAcc
    ELSE LET t == Min(T)
         IN  ulpacc_reduction(MergeAll(T \ {t}), ulpacc_priv[t])

\* in a pass every worker starts from an empty private histogram, which
\* counts no more than the worker's own samples; outside a pass no worker
\* is sampling, and a pass is sampled only after the reports of all the
\* passes before it
PrivateFreshAndPassesApart ==
    /\ \A t \in Threads :
          /\ pc[t] = "enter" => ulpacc_priv[t] = EmptyAcc
          /\ main_pc = "parallel" =>
                ulptotal(ulpacc_priv[t]) <= Len(drawn[t])
    /\ main_pc # "parallel" => \A t \in Threads : pc[t] = "idle"
    /\ main_pc = "parallel" => Len(out) = PassesBefore

\* a step of the sampling loop changes the private histogram of one
\* worker, its own, and not the shared one; the shared one changes only
\* when a worker that has finished its share merges its private histogram;
\* a report is printed only when every worker has left the barrier, and it
\* is the merge of all the private histograms
OnlyOwnThenMergedThenReported ==
    /\ (main_pc = "parallel" /\ ulpacc_priv' # ulpacc_priv) =>
          \E t \in Threads :
              /\ pc[t] \in {"for", "crit_all"}
              /\ pc'[t] \in {"for", "crit_all"}
              /\ \A u \in Threads \ {t} :
                    ulpacc_priv'[u] = ulpacc_priv[u] /\ pc'[u] = pc[u]
              /\ ulpaccrange' = ulpaccrange
    /\ (main_pc = "parallel" /\ ulpaccrange' # ulpaccrange) =>
          \E t \in Threads :
              /\ pc[t] = "for" /\ pc'[t] = "barrier"
              /\ ulpaccrange' = ulpacc_reduction(ulpaccrange, ulpacc_priv[t])
    /\ out' # out =>
          /\ \A t \in Threads : pc[t] = "joined" /\ pc'[t] = "idle"
          /\ out'[Len(out')].acc = MergeAll(Threads)
          /\ out'[Len(out')].acc = ulpaccrange

\* C21: passes are sequential and accumulation is thread-local: in a pass
\* each worker adds only to its own private histogram, which starts empty;
\* the report of the pass is printed only after every worker has finished
\* and the private histograms have been merged, and no worker samples the
\* next pass before that report.
C21_ThreadLocalThenMerged ==
    /\ [](PrivateFreshAndPassesApart)
    /\ [][OnlyOwnThenMergedThenReported]_vars

\* the second pass of a run is being sampled by two workers, each with
\* samples in its own private histogram, after the first was reported
C21_Witness ==
    /\ main_pc = "parallel" /\ Len(out) = 1
    /\ \E t \in Threads : \E u \in Threads :
          /\ t # u
          /\ ulptotal(ulpacc_priv[t]) >= 1
          /\ ulptotal(ulpacc_priv[u]) >= 1

\* the keys of a histogram lie in [0, max]
KeysInRange(acc) == \A k \in DOMAIN acc : k >= 0 /\ k <= k_max_ulp

\* C22: every result has 0 <= ulp <= max: a distance that is NaN or
\* infinite is recorded as 0 and a distance of max or more as max, so that
\* every key of every private, merged and reported histogram is in
\* [0, max].
C22_UlpClamped ==
    /\ \A t \in Threads :
          /\ KeysInRange(ulpacc_priv[t])
          /\ ret[t] # NoRet =>
                LET d == ulpdiff(ret[t].computed, ret[t].expected, fe[t])
                IN  /\ ret[t].ulp >= 0 /\ ret[t].ulp <= ret[t].max
                    /\ ~d.fin => ret[t].ulp = 0
                    /\ (d.fin /\ d.v >= ret[t].max) => ret[t].ulp = ret[t].max
                    /\ (d.fin /\ d.v < ret[t].max) => ret[t].ulp = d.v
    /\ KeysInRange(ulpaccrange)
    /\ KeysInRange(seen)
    /\ \A i \in DOMAIN out : KeysInRange(out[i].acc)

\* a reported histogram has samples at max and at 0, and a worker holds a
\* failed result whose distance is not finite, recorded as 0
C22_Witness ==
    /\ \E i \in DOMAIN out :
          /\ k_max_ulp \in DOMAIN out[i].acc
          /\ 0 \in DOMAIN out[i].acc
    /\ \E t \in Threads :
          /\ ret[t] # NoRet
          /\ ~ulpdiff(ret[t].computed, ret[t].expected, fe[t]).fin
          /\ ret[t].ulp = 0

\* the classes of values ulp has a case for
UlpClasses == {"FP_ZERO", "FP_SUBNORMAL", "FP_NORMAL"}

\* C23: ulp is only called with a zero, subnormal or normal argument: in
\* every evaluation of a sample, full enumeration included, the expected
\* value the result is constructed with, which the constructor hands to
\* ulp, is none of NaN and the infinities.
C23_UlpArgumentClassified ==
    [][\A t \in Threads :
          Len(drawn'[t]) = Len(drawn[t]) + 1 =>
              LET input == F32(0, drawn'[t][Len(drawn'[t])])
                  expected == ref_func(func, input, CurRnd)
              IN  fpclassify(expected) \in UlpClasses]_vars

\* the rounding encoding of the oracle that corresponds to a rounding mode
Encoding(mode) ==
    CASE mode = "FE_TONEAREST" -> "MPFR_RNDN"
      [] mode = "FE_UPWARD" -> "MPFR_RNDU"
      [] mode = "FE_DOWNWARD" -> "MPFR_RNDD"
      [] mode = "FE_TOWARDZERO" -> "MPFR_RNDZ"

\* a failed result a worker holds records the mode of the pass, which is
\* the mode active in the worker, and its expected value is the oracle's
\* value under the encoding of that mode
RecordedModeIsOracleMode ==
    \A t \in Threads :
        (ret[t] # NoRet /\ pc[t] \in {"crit_first", "crit_all", "exit"}) =>
            /\ ret[t].rnd = CurRnd
            /\ fe[t] = ret[t].rnd
            /\ ret[t].expected =
                   OracleValue(func, ret[t].input, Encoding(ret[t].rnd))

\* an evaluation of a sample by worker t runs under the mode of the pass,
\* and the distance it adds to the histogram is the distance of the
\* candidate from the oracle's value under the encoding of that mode
EvaluatedUnderModeOfPass ==
    \A t \in Threads :
        Len(drawn'[t]) = Len(drawn[t]) + 1 =>
            LET input == F32(0, drawn'[t][Len(drawn'[t])])
                expected == OracleValue(func, input, Encoding(CurRnd))
                computed == CandValue(func, input, fe[t])
            IN  /\ fe[t] = CurRnd
                /\ seen' = BagAdd(seen, result_ulp(computed, expected,
                                                   k_max_ulp, fe[t]))

\* C24: for every sample the oracle is invoked with the rounding encoding
\* of the mode of the enclosing rounding scope (ToNearest to RNDN, Upward
\* to RNDU, Downward to RNDD, TowardZero to RNDZ): the mode passed to the
\* oracle is the mode active in the evaluating thread when the candidate
\* is called and the mode recorded in the result.
C24_OracleModeIsScopeMode ==
    /\ [](RecordedModeIsOracleMode)
    /\ [][EvaluatedUnderModeOfPass]_vars

\* a worker holds a failed result evaluated under FE_UPWARD whose expected
\* value differs from the oracle's value rounded to nearest
C24_Witness ==
    \E t \in Threads :
        /\ ret[t] # NoRet /\ pc[t] \in {"crit_first", "crit_all", "exit"}
        /\ ret[t].rnd = "FE_UPWARD" /\ fe[t] = "FE_UPWARD"
        /\ ret[t].expected = OracleValue(func, ret[t].input, "MPFR_RNDU")
        /\ ret[t].expected # OracleValue(func, ret[t].input, "MPFR_RNDN")

\* the message of a failed fesetround is on std::cerr
FesetroundFailed ==
    \E i \in DOMAIN err :
        err[i].kind = "error" /\ err[i].msg = "fesetround failed"

\* C25: when setting the rounding mode fails on entering or leaving a
\* rounding scope, the process ends with an error message and a non-zero
\* status, and no report is printed for the pass of the failure: standard
\* output holds the reports of the passes completed before it and nothing
\* is added after the failure.
C25_FesetroundFailureFatal ==
    /\ [](FesetroundFailed =>
             /\ exit_status = EXIT_FAILURE /\ exit_status # 0
             /\ exit_by = "error"
             /\ main_pc = "parallel"
             /\ Len(out) = PassesBefore)
    /\ [][(~FesetroundFailed /\ FesetroundFailed') =>
             /\ exit_status' = EXIT_FAILURE
             /\ out' = out]_vars
    /\ [][FesetroundFailed => out' = out]_vars

\* fesetround has failed when a worker left the scope of the second pass,
\* after all the samples of that pass were evaluated
C25_Witness ==
    /\ FesetroundFailed
    /\ exit_status = EXIT_FAILURE
    /\ \E t \in Threads : pc[t] = "barrier"
    /\ PassesBefore = 1
    /\ Len(out) = 1
    /\ next_i >= 1

\* the four abbreviations of the option -r
KnownAbbrevs ==
    { <<"r", "n", "d", "n">>, <<"r", "n", "d", "u">>,
      <<"r", "n", "d", "d">>, <<"r", "n", "d", "z">> }

\* the four modes
KnownModes ==
    {"FE_TONEAREST", "FE_UPWARD", "FE_DOWNWARD", "FE_TOWARDZERO"}

\* a token of the list is no abbreviation, or a token appears twice
Refused(tokens) ==
    \/ \E i \in DOMAIN tokens : tokens[i] \notin KnownAbbrevs
    \/ \E i \in DOMAIN tokens : \E j \in DOMAIN tokens :
          i # j /\ tokens[i] = tokens[j]

\* C26: the option -r is validated before any sampling: an abbreviation
\* that is none of rndn, rndu, rndd, rndz, or one that appears twice, ends
\* with an error; the set of modes of an accepted option holds only the
\* four known modes, each at most once, one per token, so that no mode is
\* tested twice.
C26_RoundOptionValidated ==
    c_verdict.called =>
        LET tokens == split_with_ranges(c_args.rounding)
            v == c_verdict.ret
        IN  /\ Refused(tokens) <=> c_verdict.error # "none"
            /\ c_verdict.error \in {"none", "invalid rounding mode",
                                     "rounding mode already defined"}
            /\ c_verdict.error = "none" =>
                  /\ Len(v) = Len(tokens)
                  /\ \A i \in DOMAIN v :
                        v[i] \in KnownModes /\ abbrev(v[i]) = tokens[i]
                  /\ \A i \in DOMAIN v : \A j \in DOMAIN v :
                        i # j => v[i] # v[j]
            /\ main_pc = "sample" /\ sample_i = 1 /\ out = <<>>
            /\ \A t \in Threads : drawn[t] = <<>>

\* the option rndn,rndu,rndn was refused for its third token, which names
\* FE_TONEAREST a second time
C26_Witness ==
    /\ c_verdict.called
    /\ c_args.given
    /\ split_with_ranges(c_args.rounding) =
          <<abbrev("FE_TONEAREST"), abbrev("FE_UPWARD"),
            abbrev("FE_TONEAREST")>>
    /\ c_verdict.error = "rounding mode already defined"

\* the rounding mode the process starts with, in every thread
InitialModes == [t \in Threads |-> "FE_TONEAREST"]

\* outside a pass every thread has the mode the process started with; a
\* thread that has left the scope of a pass has the mode it had on entry
RestoredOutsidePass ==
    /\ main_pc # "parallel" => fe = InitialModes
    /\ \A t \in Threads :
          pc[t] = "joined" =>
              fe[t] = saved_rnd[t] /\ fe[t] = InitialModes[t]
    /\ \A i \in DOMAIN log : log[i].fe = InitialModes
    /\ exit_by = "main" => fe = InitialModes

\* a report is printed by the main thread under the initial mode, and the
\* step that completes a pass leaves every thread's mode as it was when
\* the pass was started
ReportUnderInitialMode ==
    Len(out') > Len(out) =>
        /\ fe[0] = InitialModes[0]
        /\ fe = InitialModes
        /\ fe' = fe

\* C27: a pass that runs to completion leaves the rounding mode of every
\* participating thread, the main thread included, as it was before the
\* pass: every report is printed under the rounding mode the process
\* started with, and when main returns the rounding mode is the initial
\* one.
C27_PassRestoresMode ==
    /\ [](RestoredOutsidePass)
    /\ [][ReportUnderInitialMode]_vars

\* main has returned after two passes, one of them under FE_UPWARD in
\* which both threads evaluated samples, and every thread has the initial
\* mode
C27_Witness ==
    /\ exit_by = "main"
    /\ Len(log) >= 2
    /\ \E i \in DOMAIN log :
          /\ log[i].rnd = "FE_UPWARD"
          /\ \A t \in Threads : Len(log[i].drawn[t]) >= 1
    /\ fe = InitialModes

\* under the first policy, in a pass with a failed check: no report was
\* added for it, the failing result is in no private histogram and in no
\* merged one, and the reports on standard output are those of passes
\* without a failed check
FailedPassUnreported ==
    failmode = "first" =>
        /\ nfail > 0 =>
              /\ main_pc = "parallel"
              /\ Len(out) = PassesBefore
              /\ AccTotal = next_i - nfail
        /\ \A t \in Threads :
              pc[t] \in {"crit_first", "exit"} =>
                  /\ ~PassCheck(ret[t])
                  /\ ulptotal(ulpacc_priv[t]) = Len(drawn[t]) - 1
        /\ \A i \in DOMAIN out :
              /\ log[i].nfail = 0
              /\ out[i].acc = log[i].seen
              /\ ulptotal(out[i].acc) = Iterations(out[i].sample)

\* C28: under the first policy, once a failing sample was detected no
\* report is printed for the failing pass or for a later pass, and the
\* failing sample is counted in no histogram that is reported.
C28_FirstFailureNeverReported ==
    /\ [](FailedPassUnreported)
    /\ [][(failmode = "first" /\ nfail > 0) =>
             /\ out' = out
             /\ main_pc' = main_pc /\ sample_i' = sample_i
             /\ rnd_i' = rnd_i]_vars

\* under the first policy a worker has detected a failing sample in the
\* second pass while the other worker has counted a sample of that pass,
\* and the process has ended with the report of the first pass only
C28_Witness ==
    /\ failmode = "first"
    /\ exit_by = "check"
    /\ nfail > 0
    /\ PassesBefore = 1 /\ Len(out) = 1
    /\ \E t \in Threads : \E u \in Threads :
          /\ pc[t] = "exit"
          /\ u # t /\ ulptotal(ulpacc_priv[u]) >= 1

\* the number of seed slots captured by init_random_state
SeedSlots == Cardinality(DOMAIN rng_states)

\* in a random pass the generator of slot t was advanced once for every
\* draw of worker t and by nothing else, and every thread number is the
\* index of a seed slot
OwnSlotOnly ==
    /\ \A t \in Threads :
          t >= 0 /\ t < SeedSlots /\ t \in DOMAIN rng_states
    /\ (main_pc = "parallel" /\ CurSample.kind = "Sample1Arg") =>
          \A t \in Threads :
              gens[t] = AdvanceN(rng_states[t], Len(drawn[t]))

\* a draw of worker t advances the generator of slot t once, takes its
\* input from the new state of that slot, and leaves the generators of the
\* other slots alone
DrawFromOwnSlot ==
    \A t \in Threads :
        (/\ main_pc = "parallel"
         /\ Len(drawn'[t]) = Len(drawn[t]) + 1
         /\ CurSample.kind = "Sample1Arg") =>
            /\ gens'[t] = wyhash_advance(gens[t])
            /\ drawn'[t][Len(drawn'[t])] =
                  dist(CurSample.arg, wyhash_mix(gens'[t]), fe[t]).mag
            /\ \A u \in Threads \ {t} : gens'[u] = gens[u]

\* C29: during a pass of a random sample each worker draws only from the
\* generator slot indexed by its own thread number, the index is smaller
\* than the number of seed slots captured at start-up, and no generator
\* state is read or advanced by two different workers in the same pass.
C29_WorkerDrawsOwnGenerator ==
    /\ [](OwnSlotOnly)
    /\ [][DrawFromOwnSlot]_vars

\* two workers have each drawn in the same pass of a random sample and
\* their generators are in different states
C29_Witness ==
    /\ main_pc = "parallel" /\ CurSample.kind = "Sample1Arg"
    /\ \E t \in Threads : \E u \in Threads :
          /\ t # u
          /\ Len(drawn[t]) >= 1 /\ Len(drawn[u]) >= 1
          /\ gens[t] # gens[u]
          /\ gens[t] # rng_states[t] /\ gens[u] # rng_states[u]

\* exactly one value of the pair (c, e) is infinite or NaN
ExactlyOneSpecial(c, e) == IsSpecial(c) # IsSpecial(e)

\* C30: check_full of a result with two outputs returns false whenever any
\* of computed1, computed2, expected1 and expected2 is a signaling NaN,
\* and false whenever exactly one value of a pair (computed, expected) is
\* infinite or NaN.
C30_CheckFullPairRejects ==
    c_verdict # "none" =>
        LET c1 == c_args[1]
            c2 == c_args[2]
            e1 == c_args[3]
            e2 == c_args[4]
        IN  /\ (IsSNaNClass(c1) \/ IsSNaNClass(c2)
                  \/ IsSNaNClass(e1) \/ IsSNaNClass(e2))
                 => c_verdict = "false"
            /\ (ExactlyOneSpecial(c1, e1) \/ ExactlyOneSpecial(c2, e2))
                 => c_verdict = "false"

====
